---- MODULE Spec2Model ----
(***************************************************************************)
(* Model of the extraction pipeline of the car-catalog application: the   *)
(* orchestrator (handleFileChange / handleExtractData / handleUrlSubmit,   *)
(* handleSelectCatalog with its lazy summary, handleDeleteCatalog), the    *)
(* progress tracker it drives, the extraction gateway's error translation, *)
(* and the catalog store it writes to, reads from and deletes from.        *)
(* Further specifications cover the cell edits of the database view        *)
(* (SpecEdit), one gateway call under withTimeout (SpecGateway), the chat  *)
(* panel (SpecChat) and a session of PDF uploads whose calls all settle    *)
(* (SpecLive).                                                             *)
(*                                                                         *)
(* User-facing messages are Japanese in the source; they are rendered here *)
(* in ASCII, one distinct string per distinct source string.               *)
(***************************************************************************)
EXTENDS Integers, Sequences, FiniteSets, TLC

(* ---------------------------- bounds ---------------------------------- *)
MaxInFlight == 2    \* run slots: async invocations alive at the same time
MaxStarts == 2      \* runs started in one session
NumPages == 2       \* pages of the uploaded PDF

MaxViews == 2       \* lazy-summary invocations alive at the same time
MaxDeletes == 2     \* delete invocations alive at the same time
MaxClicks == 2      \* clicks on the catalog list in one session
MaxEdits == 2       \* cell edits in one session
MaxCalls == 2       \* gateway calls followed one after the other
MaxSends == 2       \* chat messages sent in one session
MaxMounts == 2      \* times the chat panel is mounted in one session

Runs == 1..MaxInFlight
Views == 1..MaxViews
Deletes == 1..MaxDeletes

(* ------------------------- progress tracker --------------------------- *)
ProgressStep ==
  {"idle", "reading", "converting", "extractingText", "extractingJson",
   "saving", "done", "error"}

\* the optional `error' field when it is absent
NoError == "<undefined>"

\* useState initial value of `progress'
InitialProgress == [step |-> "idle", error |-> NoError, completedSteps |-> {}]

\* setProgress({ step, completedSteps: new Set() }): a fresh object, no error
FreshProgress(step) == [step |-> step, error |-> NoError, completedSteps |-> {}]

\* setProgress({ step: 'error', error, completedSteps: new Set() })
ErrorReset(msg) == [step |-> "error", error |-> msg, completedSteps |-> {}]

\* setProgress(prev => ({ ...prev, step: 'error', error, completedSteps: prev.completedSteps }))
ErrorKeep(prev, msg) ==
  [step |-> "error", error |-> msg, completedSteps |-> prev.completedSteps]

\* setProgress(prev => ({ ...prev, step, completedSteps: new Set(prev.completedSteps).add(..) }))
Advance(prev, step, done) ==
  [step |-> step, error |-> prev.error,
   completedSteps |-> prev.completedSteps \cup done]

\* FileUpload / UrlInput are enabled unless a run is shown as in progress
isProcessing(p) == p.step # "idle" /\ p.step # "done"
InputDisabled(p) == isProcessing(p) /\ p.step # "error"

(* ------------------------------ strings ------------------------------- *)
RECURSIVE IncludesFrom(_, _, _)
IncludesFrom(s, needle, i) ==
  IF i + Len(needle) - 1 > Len(s) THEN FALSE
  ELSE IF SubSeq(s, i, i + Len(needle) - 1) = needle THEN TRUE
  ELSE IncludesFrom(s, needle, i + 1)

\* String.prototype.includes
Includes(s, needle) == IncludesFrom(s, needle, 1)

LowerChar(c) ==
  CASE c = "A" -> "a" [] c = "B" -> "b" [] c = "C" -> "c" [] c = "D" -> "d"
    [] c = "E" -> "e" [] c = "F" -> "f" [] c = "G" -> "g" [] c = "H" -> "h"
    [] c = "I" -> "i" [] c = "J" -> "j" [] c = "K" -> "k" [] c = "L" -> "l"
    [] c = "M" -> "m" [] c = "N" -> "n" [] c = "O" -> "o" [] c = "P" -> "p"
    [] c = "Q" -> "q" [] c = "R" -> "r" [] c = "S" -> "s" [] c = "T" -> "t"
    [] c = "U" -> "u" [] c = "V" -> "v" [] c = "W" -> "w" [] c = "X" -> "x"
    [] c = "Y" -> "y" [] c = "Z" -> "z" [] OTHER -> c

RECURSIVE toLowerCase(_)
toLowerCase(s) ==
  IF Len(s) = 0 THEN ""
  ELSE LowerChar(SubSeq(s, 1, 1)) \o toLowerCase(SubSeq(s, 2, Len(s)))

RECURSIVE join(_, _)
\* Array.prototype.join
join(arr, sep) ==
  IF Len(arr) = 0 THEN ""
  ELSE IF Len(arr) = 1 THEN arr[1]
  ELSE arr[1] \o sep \o join(Tail(arr), sep)

RECURSIVE trim(_)
\* String.prototype.trim (blanks only)
trim(s) ==
  IF Len(s) = 0 THEN ""
  ELSE IF SubSeq(s, 1, 1) = " " THEN trim(SubSeq(s, 2, Len(s)))
  ELSE IF SubSeq(s, Len(s), Len(s)) = " " THEN trim(SubSeq(s, 1, Len(s) - 1))
  ELSE s

(* ------------------------- extraction gateway ------------------------- *)
\* a thrown value: an Error object with a message, or something else
Err(m) == [isError |-> TRUE, message |-> m]
NonError == [isError |-> FALSE, message |-> ""]

ExtractTimeoutMs == 600000
SummaryTimeoutMs == 120000

\* a timeout worded like an aborted request
TimeoutError_Aborted(ms) == Err("The operation was aborted")

\* the Error withTimeout rejects with when its timer fires first
TimeoutError(ms) == Err("Request timed out after " \o ToString(ms) \o " ms")

\* contexts passed to handleGeminiError
CtxText == "text extraction"
CtxJson == "structured data extraction"
CtxSummary == "summary generation"

MsgInvalidKey == "The API key is invalid or not set."
MsgRateLimited(context) == "API rate limit exceeded. (context: " \o context \o ")"
MsgBilling == "The Google Cloud project may have a billing problem."
MsgTimeout(context) == "AI " \o context \o " timed out."
MsgGeneric(context, m) == "An error occurred during AI " \o context \o ": " \o m
MsgUnknown(context) == "An unknown error occurred during AI " \o context \o "."

\* handleGeminiError(error, context).message
handleGeminiError(error, context) ==
  IF error.isError
  THEN LET errorMessage == toLowerCase(error.message) IN
       IF Includes(errorMessage, "api key not valid")
          \/ Includes(errorMessage, "api_key_invalid")
       THEN MsgInvalidKey
       ELSE IF Includes(errorMessage, "rate limit")
               \/ Includes(errorMessage, "resource_exhausted")
               \/ Includes(errorMessage, "429")
       THEN MsgRateLimited(context)
       ELSE IF Includes(errorMessage, "billing")
               \/ Includes(errorMessage, "project_disabled")
       THEN MsgBilling
       ELSE IF Includes(errorMessage, "timed out")
       THEN MsgTimeout(context)
       ELSE MsgGeneric(context, error.message)
  ELSE MsgUnknown(context)

\* what `await withTimeout(ai.models.generateContent(..), ms)' can produce:
\* a response text, a rejection of the API call, or the timeout
ApiFailures == {Err("[429] RESOURCE_EXHAUSTED")}
Response(t) == [ok |-> TRUE, text |-> t]
Failure(e) == [ok |-> FALSE, error |-> e]
ApiOutcomes(texts, ms) ==
  {Response(t) : t \in texts}
    \cup {Failure(e) : e \in ApiFailures \cup {TimeoutError(ms)}}

\* texts the model may answer a transcription request with
TextResponses == {"Page1 Page2 Page3 ", " "}

\* texts the model may answer a structured-extraction request with
OneCarJson == "[{Toyota,Prius,G,3000000}]"
\* a list whose second item has no grade
TwoCarJson == "[{Toyota,Prius,G,3000000},{Toyota,Aqua,null,2000000}]"
JsonResponses == {OneCarJson, TwoCarJson, "[]", " "}

\* the JSON value null in a field of an item
Null == "<null>"

MsgEmptyResponse == "The AI returned an empty response."

\* JSON.parse on the response texts above
JSONparse(jsonText) ==
  IF jsonText = OneCarJson
  THEN <<[manufacturer |-> "Toyota", modelName |-> "Prius", grade |-> "G",
          price |-> 3000000]>>
  ELSE IF jsonText = TwoCarJson
  THEN <<[manufacturer |-> "Toyota", modelName |-> "Prius", grade |-> "G",
          price |-> 3000000],
         [manufacturer |-> "Toyota", modelName |-> "Aqua", grade |-> Null,
          price |-> 2000000]>>
  ELSE <<>>

\* parsedJson.map((item, index) => ({ ...item, id: `${Date.now()}-${index}` }))
WithIds(parsedJson, clock) ==
  [i \in 1..Len(parsedJson) |->
     [id |-> ToString(clock) \o "-" \o ToString(i - 1),
      manufacturer |-> parsedJson[i].manufacturer,
      modelName |-> parsedJson[i].modelName,
      grade |-> parsedJson[i].grade,
      price |-> parsedJson[i].price]]

\* a promise: not yet created, pending, or settled with a value or a reason
NoText == ""
NoJson == [parsedData |-> <<>>, rawJson |-> ""]
Promise(status, value, reason) ==
  [status |-> status, value |-> value, reason |-> reason]
Settled(p) == p.status \in {"fulfilled", "rejected"}

\* extractRawTextFromImages: the settled promise for one API outcome
extractRawTextFromImages(outcome) ==
  IF outcome.ok THEN Promise("fulfilled", trim(outcome.text), "")
  ELSE Promise("rejected", NoText, handleGeminiError(outcome.error, CtxText))

\* extractCarDataFromImages: the settled promise for one API outcome
extractCarDataFromImages(outcome, clock) ==
  IF outcome.ok
  THEN LET jsonText == trim(outcome.text) IN
       IF jsonText = ""
       THEN Promise("rejected", NoJson,
                    handleGeminiError(Err(MsgEmptyResponse), CtxJson))
       ELSE Promise("fulfilled",
                    [parsedData |-> WithIds(JSONparse(jsonText), clock),
                     rawJson |-> jsonText], "")
  ELSE Promise("rejected", NoJson, handleGeminiError(outcome.error, CtxJson))

\* texts the model may answer a summary request with
SummaryResponses == {"A summary."}

\* generateSummary(text), once the API call it makes has the given outcome
generateSummary(outcome) ==
  IF outcome.ok THEN Promise("fulfilled", trim(outcome.text), "")
  ELSE Promise("rejected", NoText, handleGeminiError(outcome.error, CtxSummary))

(* ------------------- a gateway call under withTimeout ------------------ *)
\* extractRawTextFromImages, extractCarDataFromImages, generateSummary
GatewayFns == {"text", "json", "summary"}
Context(fn) ==
  CASE fn = "text" -> CtxText [] fn = "json" -> CtxJson [] OTHER -> CtxSummary
TimeoutMs(fn) == IF fn = "summary" THEN SummaryTimeoutMs ELSE ExtractTimeoutMs
Responses(fn) ==
  CASE fn = "text" -> TextResponses
    [] fn = "json" -> JsonResponses
    [] OTHER -> SummaryResponses

\* the function's promise once `await withTimeout(..)' has the given outcome
GatewayResult(fn, outcome, clock) ==
  CASE fn = "text" -> extractRawTextFromImages(outcome)
    [] fn = "json" -> extractCarDataFromImages(outcome, clock)
    [] OTHER -> generateSummary(outcome)

\* what generateContent may reject with
RequestFailures ==
  ApiFailures
    \cup {Err("API key not valid. Please pass a valid API key."),
          Err("Rate limit reached"),
          Err("Billing is not enabled"),
          Err("The socket timed out"),
          Err("Failed to fetch"),
          Err("API key not valid; the request timed out"),
          NonError}

\* the call that settles last decides
Settle_LastWins(p, outcome) == <<outcome>>

\* resolve(value) or reject(reason) on the promise withTimeout returns: a
\* settled promise stays as it is
Settle(p, outcome) == IF p = <<>> THEN <<outcome>> ELSE p

\* the timer's callback: reject(new Error(..))
TimerCallback(p, ms) == Settle(p, Failure(TimeoutError(ms)))

\* the function's own promise follows the promise it awaits
Follow(fn, wt, clock) ==
  IF wt = <<>> THEN <<>> ELSE <<GatewayResult(fn, wt[1], clock)>>

\* op: the request's promise; timer: the setTimeout handle; wt: the promise
\* withTimeout returned; result: the promise of the gateway function
NoCall ==
  [fn |-> "none", n |-> 0, op |-> <<>>, timer |-> "none", wt |-> <<>>,
   result |-> <<>>]

(* ----------------------------- chat panel ----------------------------- *)
MsgSendFailed == "An error occurred while sending the message. Try again."

\* what the user may type, and what the model may answer
ChatInputs == {" ", "hi"}
Replies == {"reply"}

\* a ChatMessage
Message(role, content) == [role |-> role, content |-> content]

\* the component's state on mount (its useState initial values), for
\* instance number inst and prop chat
MountedPanel(inst, chatProp) ==
  [mounted |-> TRUE, inst |-> inst, chat |-> chatProp, messages |-> <<>>,
   userInput |-> "", isSending |-> FALSE, error |-> NoError]

\* no instance is mounted; inst counts the instances there have been
Unmounted(inst) ==
  [mounted |-> FALSE, inst |-> inst, chat |-> [live |-> FALSE, seed |-> <<>>],
   messages |-> <<>>, userInput |-> "", isSending |-> FALSE,
   error |-> NoError]
NoPanel == Unmounted(0)

\* if (!userInput.trim() || !chat || isSending) return;
Blocked(p) == trim(p.userInput) = "" \/ ~p.chat.live \/ p.isSending

\* the catch block leaves the optimistic message in the transcript
DropLast_KeepAll(messages) == messages

\* prev.slice(0, -1)
DropLast(messages) == SubSeq(messages, 1, Len(messages) - 1)

(* ---------------------------- web fetch ------------------------------- *)
Urls == {"https://example.com/catalog", "not a url"}

\* every string is let through to the request
ValidUrl_Anything(url) == TRUE

\* whether `new URL(url)' succeeds
ValidUrl(url) == Includes(url, "://") /\ ~Includes(url, " ")

\* the messages of the TypeError `new URL(url)' throws otherwise (V8,
\* SpiderMonkey)
UrlTypeErrors(url) ==
  {"Failed to construct 'URL': Invalid URL",
   "URL constructor: " \o url \o " is not a valid URL."}

\* new URL(url).hostname
hostname(url) == IF url = "https://example.com/catalog" THEN "example.com" ELSE ""

MsgInvalidUrl == "Invalid URL. Enter a correct URL."
MsgFetchFailed(m) == "Failed to fetch the web page: " \o m
MsgHttpError(status) == "HTTP error: " \o ToString(status)

\* fetchWebPageContent's catch block for a TypeError with message m
RejectTypeError(m) ==
  IF Includes(m, "URL") THEN MsgInvalidUrl ELSE MsgFetchFailed(m)

\* what `fetch(corsProxyUrl)' followed by response.json() can produce
FetchOutcomes ==
  {[ok |-> TRUE, status |-> 200], [ok |-> TRUE, status |-> 500],
   [ok |-> FALSE, status |-> 0]}

\* fetchWebPageContent(url) for a URL that parsed, given the fetch outcome
fetchWebPageContent(outcome) ==
  IF ~outcome.ok
  THEN Promise("rejected", NoText, MsgFetchFailed("Failed to fetch"))
  ELSE IF outcome.status # 200
  THEN Promise("rejected", NoText, MsgFetchFailed(MsgHttpError(outcome.status)))
  ELSE Promise("fulfilled", "<html>", "")

(* --------------------------- catalog store ---------------------------- *)
\* errors the persistence layer may reject with
StoreFailures == {Err("Missing or insufficient permissions.")}

\* base64 page image i and the Storage URL it is replaced by
Image(i) == "data:image/jpeg;base64,p" \o ToString(i)
Images(n) == [i \in 1..n |-> Image(i)]
DownloadUrl(catalogId, index) ==
  "catalogs/" \o catalogId \o "/page-" \o ToString(index) \o ".jpg"

\* uploadImagesToStorage(images, catalogId)
uploadImagesToStorage(images, catalogId) ==
  [i \in 1..Len(images) |-> DownloadUrl(catalogId, i)]

\* Timestamp.fromDate(date) and Timestamp.toDate(), dates in milliseconds
TimestampFromDate(ms) ==
  [seconds |-> ms \div 1000, nanoseconds |-> (ms % 1000) * 1000000]
TimestampToDate(ts) == ts.seconds * 1000 + ts.nanoseconds \div 1000000

\* the imageUrls saveCatalog computes for the catalog it is given
ImageUrls(catalog, clock) ==
  IF Len(catalog.images) > 0
  THEN uploadImagesToStorage(catalog.images, "catalog-" \o ToString(clock))
  ELSE <<>>

\* the document addDoc writes under id `id': catalogData and its key
CatalogDoc(catalog, id, clock) ==
  [id |-> id, fileName |-> catalog.fileName,
   createdAt |-> TimestampFromDate(catalog.createdAt),
   extractedData |-> catalog.extractedData, rawJson |-> catalog.rawJson,
   rawText |-> catalog.rawText, summary |-> catalog.summary,
   images |-> ImageUrls(catalog, clock)]

\* the record saveCatalog returns for document id `id'
saveCatalog(catalog, id, clock) ==
  [id |-> id, fileName |-> catalog.fileName, createdAt |-> catalog.createdAt,
   extractedData |-> catalog.extractedData, rawJson |-> catalog.rawJson,
   rawText |-> catalog.rawText, summary |-> catalog.summary,
   images |-> ImageUrls(catalog, clock)]

\* an identifier handed out again once its record is gone
NextId_Reuse(docs, counter) == Cardinality(docs) + 1

\* the id of the document addDoc creates: one never handed out before
NextId(docs, counter) == counter

\* timestamp order
TimestampLess(s, t) ==
  s.seconds < t.seconds
    \/ (s.seconds = t.seconds /\ s.nanoseconds < t.nanoseconds)

\* oldest first
NewerFirst_Ascending(a, b) ==
  TimestampLess(a.createdAt, b.createdAt)
    \/ (a.createdAt = b.createdAt /\ a.id < b.id)

\* a comes before b under orderBy('createdAt', 'desc')
NewerFirst(a, b) ==
  TimestampLess(b.createdAt, a.createdAt)
    \/ (a.createdAt = b.createdAt /\ a.id > b.id)

RECURSIVE SortDesc(_)
SortDesc(S) ==
  IF S = {} THEN <<>>
  ELSE LET first == CHOOSE a \in S : \A b \in S \ {a} : NewerFirst(a, b)
       IN <<first>> \o SortDesc(S \ {first})

\* the timestamp read back without its sub-second part
FromDoc_SecondsOnly(d) == [d EXCEPT !.createdAt = d.createdAt.seconds * 1000]

\* { ...data, id: doc.id, createdAt: data.createdAt.toDate() }
FromDoc(d) == [d EXCEPT !.createdAt = TimestampToDate(d.createdAt)]

\* getAllCatalogs() on the collection `docs'
getAllCatalogs(docs) ==
  LET snapshot == SortDesc(docs)
  IN [i \in 1..Len(snapshot) |-> FromDoc(snapshot[i])]

\* the call leaves the collection as it is
deleteCatalog_WrongPath(docs, id) == docs

\* deleteCatalog(id): deleteDoc removes the document if there is one
deleteCatalog(docs, id) == {d \in docs : d.id # id}

\* the error updateDoc rejects with when the document does not exist
NotFoundError == Err("No document to update")

\* a write that creates the document when it is missing (setDoc)
updateCatalog_Upsert(docs, catalog) ==
  [ok |-> TRUE,
   docs |-> {d \in docs : d.id # catalog.id}
              \cup {[catalog EXCEPT
                       !.createdAt = TimestampFromDate(catalog.createdAt)]}]

\* updateCatalog(catalog): updateDoc writes the record's fields to the
\* document with its id, and fails when there is no such document
updateCatalog(docs, catalog) ==
  IF \E d \in docs : d.id = catalog.id
  THEN [ok |-> TRUE,
        docs |-> {d \in docs : d.id # catalog.id}
                   \cup {[catalog EXCEPT
                            !.createdAt = TimestampFromDate(catalog.createdAt)]}]
  ELSE [ok |-> FALSE, docs |-> docs]

(* ---------------------------- orchestrator ---------------------------- *)
MsgReadFailed == "Failed to read the PDF file."
MsgNoImages == "No images could be extracted from the PDF."
MsgNothingExtracted == "The AI could not extract valid data from the catalog."
MsgSaveFailed == "Failed to save to the database."
MsgUrlUnknown == "An error occurred while getting data from the URL."

\* err instanceof Error ? err.message : fallback
MessageOf(err, fallback) == IF err.isError THEN err.message ELSE fallback

\* a fail-fast join (Promise.all): resolved on the first rejection
allSettled_FailFast(text, json) ==
  \/ text.status = "rejected" \/ json.status = "rejected"
  \/ (text.status = "fulfilled" /\ json.status = "fulfilled")

\* Promise.allSettled([text, json]) has resolved
allSettled(text, json) == Settled(text) /\ Settled(json)

\* the two results read in the opposite order
ExtractLocals_JsonFirst(text, json) ==
  [extractedRawText |-> IF text.status = "fulfilled" THEN text.value ELSE "",
   extractedJsonData |-> IF json.status = "fulfilled" THEN json.value ELSE NoJson,
   apiErrors |-> (IF json.status = "fulfilled" THEN <<>> ELSE <<json.reason>>)
                 \o (IF text.status = "fulfilled" THEN <<>> ELSE <<text.reason>>)]

\* the locals of handleExtractData after reading both settled results
ExtractLocals(text, json) ==
  [extractedRawText |-> IF text.status = "fulfilled" THEN text.value ELSE "",
   extractedJsonData |-> IF json.status = "fulfilled" THEN json.value ELSE NoJson,
   apiErrors |-> (IF text.status = "fulfilled" THEN <<>> ELSE <<text.reason>>)
                 \o (IF json.status = "fulfilled" THEN <<>> ELSE <<json.reason>>)]

\* if (!extractedRawText && extractedJsonData.parsedData.length === 0)
NothingExtracted(rawText, parsedData) == rawText = "" /\ Len(parsedData) = 0

\* neither the apiErrors check nor the empty-result guard: whatever came
\* back is saved
PathAfterJoin_SaveAlways(text, json) ==
  IF text.status = "fulfilled" /\ text.value # "" THEN "summary" ELSE "save"

\* where handleExtractData goes once both results are in: into its catch
\* block, on to the summary, into the empty-result guard, or on to the save
PathAfterJoin(text, json) ==
  LET l == ExtractLocals(text, json) IN
  IF Len(l.apiErrors) > 0 THEN "throw"
  ELSE IF l.extractedRawText # "" THEN "summary"
  ELSE IF NothingExtracted(l.extractedRawText, l.extractedJsonData.parsedData)
  THEN "empty"
  ELSE "save"

NoChat == [live |-> FALSE, seed |-> <<>>]

\* a session that was given no records
createChat_Unseeded(extractedData) == [live |-> TRUE, seed |-> <<>>]

\* createChat(extractedData)
createChat(extractedData) == [live |-> TRUE, seed |-> extractedData]

Files == {"catalog.pdf"}

\* a handleSelectCatalog invocation that awaits nothing
NoView == [pc |-> "none", catalog |-> <<>>, summary |-> "", update |-> "none"]

\* a handleDeleteCatalog invocation that awaits nothing; selectedCatalogId is
\* the value its closure captured
NoDelete == [pc |-> "none", id |-> 0, selectedCatalogId |-> 0]

\* one run of the pipeline: the position of its async function and its locals
UnusedRun ==
  [kind |-> "none", pc |-> "unused", fileName |-> "", url |-> "",
   numPages |-> 0, page |-> 0, hasContext |-> TRUE, images |-> 0,
   text |-> Promise("none", NoText, ""),
   json |-> Promise("none", NoJson, ""),
   sum |-> Promise("none", NoText, ""),
   save |-> "none", list |-> "none", createdAt |-> 0,
   extractedRawText |-> "", extractedJsonData |-> NoJson, summary |-> "",
   newCatalog |-> <<>>]

VARIABLES
  progress,         \* the ProgressState held by App
  runs,             \* the pipeline runs started so far
  store,            \* the documents of the `catalogs' collection
  nextDocId,        \* the next document id the store hands out
  savedCatalogs,    \* App's loaded catalog list
  selectedCatalog,  \* App's selected catalog, <<>> when null
  chat,             \* App's chat session
  timers,           \* pending `done -> idle' timeouts
  views,            \* handleSelectCatalog invocations waiting for a summary
  deletes,          \* handleDeleteCatalog invocations
  clicks,           \* clicks on the catalog list so far
  now,              \* Date.now()
  edits,            \* cell edits so far
  call,             \* a gateway operation and the withTimeout around its request
  panel,            \* the state of the ChatPanel component
  sends             \* the chat.sendMessage calls made so far

vars == <<progress, runs, store, nextDocId, savedCatalogs, selectedCatalog,
          chat, timers, views, deletes, clicks, now, edits, call, panel,
          sends>>

\* what the pipeline, the list and the store never touch
aux == <<edits, call, panel, sends>>

\* everything App holds, the store included
app == <<progress, runs, store, nextDocId, savedCatalogs, selectedCatalog,
         chat, timers, views, deletes, clicks, now>>

Init ==
  /\ progress = InitialProgress
  /\ runs = [r \in Runs |-> UnusedRun]
  /\ store = {}
  /\ nextDocId = 1
  /\ savedCatalogs = <<>>
  /\ selectedCatalog = <<>>
  /\ chat = NoChat
  /\ timers = 0
  /\ views = [v \in Views |-> NoView]
  /\ deletes = [d \in Deletes |-> NoDelete]
  /\ clicks = 0
  /\ now = 0
  /\ edits = 0
  /\ call = NoCall
  /\ panel = NoPanel
  /\ sends = <<>>

\* an async invocation that will take no further step
Over(run) == run.pc \in {"unused", "ended", "stuck", "crashed"}

\* the slot a new run takes: the first whose previous invocation is over
FreeSlot(r) == Over(runs[r]) /\ \A q \in Runs : q < r => ~Over(runs[q])

\* handleFileChange(file) up to reader.readAsArrayBuffer(file)
handleFileChange(r, file) ==
  /\ FreeSlot(r)
  /\ now < MaxStarts
  /\ ~InputDisabled(progress)
  /\ progress' = FreshProgress("reading")
  /\ selectedCatalog' = <<>>
  /\ chat' = NoChat
  /\ runs' = [runs EXCEPT ![r] = [UnusedRun EXCEPT !.kind = "pdf",
                                                   !.pc = "reading",
                                                   !.fileName = file]]
  /\ now' = now + 1
  /\ UNCHANGED <<views, deletes, clicks, store, nextDocId, savedCatalogs, timers>>
  /\ UNCHANGED aux

\* reader.onload fires: no result, or the bytes of the file
ReaderLoads(r) ==
  /\ runs[r].kind = "pdf" /\ runs[r].pc = "reading"
  /\ \E hasResult \in BOOLEAN :
       IF hasResult
       THEN /\ progress' = Advance(progress, "converting", {"reading"})
            /\ runs' = [runs EXCEPT ![r].pc = "parsing"]
       ELSE /\ progress' = ErrorReset(MsgReadFailed)
            /\ runs' = [runs EXCEPT ![r].pc = "ended"]
  /\ UNCHANGED <<views, deletes, clicks, store, nextDocId, savedCatalogs, selectedCatalog, chat,
                 timers, now>>
  /\ UNCHANGED aux

\* the read fails: the reader has no onerror handler and onload never fires
ReaderFails(r) ==
  /\ runs[r].kind = "pdf" /\ runs[r].pc = "reading"
  /\ runs' = [runs EXCEPT ![r].pc = "stuck"]
  /\ UNCHANGED <<views, deletes, clicks, progress, store, nextDocId, savedCatalogs, selectedCatalog,
                 chat, timers, now>>
  /\ UNCHANGED aux

\* `await pdfjsLib.getDocument(typedArray).promise' settles inside onload;
\* a rejection there is outside handleFileChange's try block
GetDocumentSettles(r) ==
  /\ runs[r].pc = "parsing"
  /\ \/ \E ctx \in BOOLEAN :
          runs' = [runs EXCEPT ![r] = [@ EXCEPT !.pc = "rendering",
                                                !.numPages = NumPages,
                                                !.page = 0,
                                                !.hasContext = ctx]]
     \/ runs' = [runs EXCEPT ![r].pc = "crashed"]
  /\ UNCHANGED <<views, deletes, clicks, progress, store, nextDocId, savedCatalogs, selectedCatalog,
                 chat, timers, now>>
  /\ UNCHANGED aux

\* the catalog handleExtractData hands to db.saveCatalog
NewCatalogData(run) ==
  [fileName |-> run.fileName, createdAt |-> run.createdAt,
   extractedData |-> run.extractedJsonData.parsedData,
   rawJson |-> run.extractedJsonData.rawJson,
   rawText |-> run.extractedRawText,
   summary |-> run.summary,
   images |-> Images(run.images)]

\* handleExtractData's empty-result guard fires: nothing is saved
RejectEmpty(r, run, summary) ==
  /\ progress' = ErrorReset(MsgNothingExtracted)
  /\ runs' = [runs EXCEPT ![r] = [run EXCEPT !.pc = "ended",
                                             !.summary = summary]]

\* handleExtractData builds newCatalogData and calls db.saveCatalog
CallSave(r, run, summary) ==
  /\ progress' = Advance(progress, "saving", {"extractingText", "extractingJson"})
  /\ runs' = [runs EXCEPT ![r] = [run EXCEPT !.pc = "saving",
                                             !.summary = summary,
                                             !.createdAt = now,
                                             !.save = "pending"]]

\* handleExtractData from `setProgress(.. 'saving' ..)' on, once the summary
\* attempt is over
EnterSaving(r, run, summary) ==
  IF NothingExtracted(run.extractedRawText, run.extractedJsonData.parsedData)
  THEN RejectEmpty(r, run, summary)
  ELSE CallSave(r, run, summary)

\* handleExtractData after `await Promise.allSettled(..)' up to its next await
AfterJoin(r, run) ==
  LET l == ExtractLocals(run.text, run.json)
      path == PathAfterJoin(run.text, run.json)
      run2 == [run EXCEPT !.extractedRawText = l.extractedRawText,
                          !.extractedJsonData = l.extractedJsonData]
  IN /\ chat' = IF run.json.status = "fulfilled"
                   /\ Len(l.extractedJsonData.parsedData) > 0
                THEN createChat(l.extractedJsonData.parsedData)
                ELSE chat
     /\ CASE path = "throw" ->
               /\ progress' = ErrorKeep(progress, join(l.apiErrors, "\n"))
               /\ runs' = [runs EXCEPT ![r] = [run2 EXCEPT !.pc = "ended"]]
          [] path = "summary" ->
               /\ progress' = progress
               /\ runs' = [runs EXCEPT ![r] =
                             [run2 EXCEPT !.pc = "summarizing",
                                          !.sum = Promise("pending", NoText, "")]]
          [] path = "empty" -> RejectEmpty(r, run2, "")
          [] OTHER -> CallSave(r, run2, "")

\* handleExtractData(images, fileName) up to `await Promise.allSettled(..)'
StartExtract(r, run) ==
  IF run.images = 0
  THEN /\ progress' = ErrorReset(MsgNoImages)
       /\ runs' = [runs EXCEPT ![r] = [run EXCEPT !.pc = "ended"]]
  ELSE /\ progress' = Advance(progress, "extractingText", {"converting"})
       /\ runs' = [runs EXCEPT ![r] =
                     [run EXCEPT !.pc = "extracting",
                                 !.text = Promise("pending", NoText, ""),
                                 !.json = Promise("pending", NoJson, "")]]

\* one iteration of the page loop; after the last page the images are handed
\* to handleExtractData
RenderPage(r) ==
  /\ runs[r].pc = "rendering" /\ runs[r].page < runs[r].numPages
  /\ \/ LET run == [runs[r] EXCEPT
                      !.page = @ + 1,
                      !.images = IF runs[r].hasContext THEN @ + 1 ELSE @]
        IN IF run.page = run.numPages
           THEN StartExtract(r, run)
           ELSE /\ runs' = [runs EXCEPT ![r] = run]
                /\ progress' = progress
     \/ /\ runs' = [runs EXCEPT ![r].pc = "crashed"]
        /\ progress' = progress
  /\ UNCHANGED <<views, deletes, clicks, store, nextDocId, savedCatalogs, selectedCatalog, chat,
                 timers, now>>
  /\ UNCHANGED aux

\* a branch promise settles; when that completes the join, handleExtractData
\* resumes
BranchSettles(r, run) ==
  /\ IF allSettled(run.text, run.json)
     THEN AfterJoin(r, run)
     ELSE /\ runs' = [runs EXCEPT ![r] = run]
          /\ progress' = progress
          /\ chat' = chat
  /\ UNCHANGED <<views, deletes, clicks, store, nextDocId, savedCatalogs, selectedCatalog, timers, now>>
  /\ UNCHANGED aux

\* the promise of extractRawTextFromImages(images) settles
TextSettles(r) ==
  /\ runs[r].pc = "extracting" /\ runs[r].text.status = "pending"
  /\ \E o \in ApiOutcomes(TextResponses, ExtractTimeoutMs) :
       BranchSettles(r, [runs[r] EXCEPT !.text = extractRawTextFromImages(o)])

\* the promise of extractCarDataFromImages(images) settles
JsonSettles(r) ==
  /\ runs[r].pc = "extracting" /\ runs[r].json.status = "pending"
  /\ \E o \in ApiOutcomes(JsonResponses, ExtractTimeoutMs) :
       BranchSettles(r, [runs[r] EXCEPT
                           !.json = extractCarDataFromImages(o, now)])

\* `await generateSummary(extractedRawText)' settles in handleExtractData
SummarySettles(r) ==
  /\ runs[r].kind = "pdf" /\ runs[r].pc = "summarizing"
  /\ \E o \in ApiOutcomes(SummaryResponses, SummaryTimeoutMs) :
       LET res == generateSummary(o)
           run == [runs[r] EXCEPT !.sum = Promise(res.status, NoText, "")]
       IN EnterSaving(r, run, IF res.status = "fulfilled" THEN res.value ELSE "")
  /\ UNCHANGED <<views, deletes, clicks, store, nextDocId, savedCatalogs, selectedCatalog, chat,
                 timers, now>>
  /\ UNCHANGED aux

\* the catch block around the save: handleExtractData keeps the completed
\* steps, handleUrlSubmit starts from a fresh object
SaveCatch(run, prev, err) ==
  IF run.kind = "pdf"
  THEN ErrorKeep(prev, MessageOf(err, MsgSaveFailed))
  ELSE ErrorReset(MessageOf(err, MsgUrlUnknown))

\* the failed save is tried again
SaveRejected_Retry(run) == [run EXCEPT !.pc = "saving", !.save = "rejected"]

\* the run whose `await db.saveCatalog(..)' rejected: it ends in the catch
SaveRejected(run) == [run EXCEPT !.pc = "ended", !.save = "rejected"]

\* `await db.saveCatalog(newCatalogData)' settles: the upload or addDoc
\* failed, or the document was added
SaveSettles(r) ==
  /\ runs[r].pc = "saving"
  /\ \/ \E e \in StoreFailures :
          /\ progress' = SaveCatch(runs[r], progress, e)
          /\ runs' = [runs EXCEPT ![r] = SaveRejected(@)]
          /\ UNCHANGED <<store, nextDocId>>
     \/ LET id == NextId(store, nextDocId)
            catalog == NewCatalogData(runs[r])
        IN /\ store' = store \cup {CatalogDoc(catalog, id, runs[r].createdAt)}
           /\ nextDocId' = nextDocId + 1
           /\ runs' = [runs EXCEPT ![r] =
                         [@ EXCEPT !.pc = "reloading",
                                   !.save = "fulfilled",
                                   !.list = "pending",
                                   !.newCatalog =
                                      <<saveCatalog(catalog, id,
                                                   runs[r].createdAt)>>]]
           /\ progress' = progress
  /\ UNCHANGED <<views, deletes, clicks, savedCatalogs, selectedCatalog, chat, timers, now>>
  /\ UNCHANGED aux

\* `await loadCatalogs()' after the save settles
ReloadSettles(r) ==
  /\ runs[r].pc = "reloading"
  /\ \/ \E e \in StoreFailures :
          /\ progress' = SaveCatch(runs[r], progress, e)
          /\ runs' = [runs EXCEPT ![r] = [@ EXCEPT !.pc = "ended",
                                                   !.list = "rejected"]]
          /\ UNCHANGED <<savedCatalogs, selectedCatalog, timers>>
     \/ /\ savedCatalogs' = getAllCatalogs(store)
        /\ selectedCatalog' = runs[r].newCatalog
        /\ progress' = Advance(progress, "done", {"saving"})
        /\ timers' = timers + 1
        /\ runs' = [runs EXCEPT ![r] = [@ EXCEPT !.pc = "ended",
                                                 !.list = "fulfilled"]]
  /\ UNCHANGED <<views, deletes, clicks, store, nextDocId, chat, now>>
  /\ UNCHANGED aux

\* what extractCarDataFromWebPage(htmlContent, url) resolves with: the
\* structured records, their raw JSON and the page's text
CtxWeb == "web page data extraction"
NoWeb == [parsedData |-> <<>>, rawJson |-> "", rawText |-> ""]
WebResponses ==
  {[json |-> OneCarJson, text |-> "Web page text"], [json |-> "[]", text |-> ""]}
WebOutcomes ==
  {[ok |-> TRUE, json |-> w.json, text |-> w.text] : w \in WebResponses}
    \cup {[ok |-> FALSE, error |-> e] :
            e \in ApiFailures \cup {TimeoutError(ExtractTimeoutMs)}}

extractCarDataFromWebPage(outcome, clock) ==
  IF outcome.ok
  THEN Promise("fulfilled",
               [parsedData |-> WithIds(JSONparse(outcome.json), clock),
                rawJson |-> outcome.json, rawText |-> outcome.text], "")
  ELSE Promise("rejected", NoWeb, handleGeminiError(outcome.error, CtxWeb))

\* handleUrlSubmit(url) up to its first await that leaves the task: a string
\* that is no URL is rejected by fetchWebPageContent before any request
handleUrlSubmit(r, url) ==
  /\ FreeSlot(r)
  /\ now < MaxStarts
  /\ ~InputDisabled(progress)
  /\ selectedCatalog' = <<>>
  /\ chat' = NoChat
  /\ now' = now + 1
  /\ IF ValidUrl(url)
     THEN /\ progress' = FreshProgress("reading")
          /\ runs' = [runs EXCEPT ![r] = [UnusedRun EXCEPT !.kind = "url",
                                                           !.pc = "fetching",
                                                           !.url = url]]
     ELSE /\ \E m \in UrlTypeErrors(url) :
               progress' = ErrorReset(RejectTypeError(m))
          /\ runs' = [runs EXCEPT ![r] = [UnusedRun EXCEPT !.kind = "url",
                                                           !.pc = "ended",
                                                           !.url = url]]
  /\ UNCHANGED <<views, deletes, clicks, store, nextDocId, savedCatalogs, timers>>
  /\ UNCHANGED aux

\* `await fetchWebPageContent(url)' settles
FetchSettles(r) ==
  /\ runs[r].pc = "fetching"
  /\ \E o \in FetchOutcomes :
       LET res == fetchWebPageContent(o) IN
       IF res.status = "fulfilled"
       THEN /\ progress' = Advance(progress, "extractingJson", {"reading"})
            /\ runs' = [runs EXCEPT ![r] =
                          [@ EXCEPT !.pc = "webExtracting",
                                    !.json = Promise("pending", NoJson, "")]]
       ELSE /\ progress' = ErrorReset(res.reason)
            /\ runs' = [runs EXCEPT ![r].pc = "ended"]
  /\ UNCHANGED <<views, deletes, clicks, store, nextDocId, savedCatalogs, selectedCatalog, chat,
                 timers, now>>
  /\ UNCHANGED aux

\* handleUrlSubmit from building newCatalogData to the call of db.saveCatalog
UrlSave(r, run, summary) ==
  runs' = [runs EXCEPT ![r] = [run EXCEPT !.pc = "saving",
                                          !.fileName = hostname(run.url),
                                          !.summary = summary,
                                          !.createdAt = now,
                                          !.images = 0,
                                          !.save = "pending"]]

\* `await extractCarDataFromWebPage(htmlContent, url)' settles
WebExtractSettles(r) ==
  /\ runs[r].pc = "webExtracting"
  /\ \E o \in WebOutcomes :
       LET res == extractCarDataFromWebPage(o, now) IN
       IF res.status = "fulfilled"
       THEN LET run == [runs[r] EXCEPT
                          !.json = Promise("fulfilled",
                                           [parsedData |-> res.value.parsedData,
                                            rawJson |-> res.value.rawJson], ""),
                          !.extractedJsonData =
                              [parsedData |-> res.value.parsedData,
                               rawJson |-> res.value.rawJson],
                          !.extractedRawText = res.value.rawText]
            IN /\ chat' = IF Len(res.value.parsedData) > 0
                          THEN createChat(res.value.parsedData)
                          ELSE chat
               /\ progress' = Advance(progress, "saving", {"extractingJson"})
               /\ IF res.value.rawText # ""
                  THEN runs' = [runs EXCEPT ![r] =
                                 [run EXCEPT !.pc = "summarizing",
                                             !.sum = Promise("pending", NoText, "")]]
                  ELSE UrlSave(r, run, "")
       ELSE /\ progress' = ErrorReset(res.reason)
            /\ runs' = [runs EXCEPT ![r] =
                          [@ EXCEPT !.pc = "ended",
                                    !.json = Promise("rejected", NoJson, res.reason)]]
            /\ chat' = chat
  /\ UNCHANGED <<views, deletes, clicks, store, nextDocId, savedCatalogs, selectedCatalog, timers, now>>
  /\ UNCHANGED aux

\* `await generateSummary(rawText)' settles in handleUrlSubmit
UrlSummarySettles(r) ==
  /\ runs[r].kind = "url" /\ runs[r].pc = "summarizing"
  /\ \E o \in ApiOutcomes(SummaryResponses, SummaryTimeoutMs) :
       LET res == generateSummary(o)
           run == [runs[r] EXCEPT !.sum = Promise(res.status, NoText, "")]
       IN UrlSave(r, run, IF res.status = "fulfilled" THEN res.value ELSE "")
  /\ UNCHANGED <<views, deletes, clicks, progress, store, nextDocId, savedCatalogs, selectedCatalog,
                 chat, timers, now>>
  /\ UNCHANGED aux

\* setTimeout(() => setProgress({ step: 'idle', completedSteps: new Set() }), 5000)
TimerFires ==
  /\ timers > 0
  /\ timers' = timers - 1
  /\ progress' = FreshProgress("idle")
  /\ UNCHANGED <<views, deletes, clicks, runs, store, nextDocId, savedCatalogs, selectedCatalog, chat, now>>
  /\ UNCHANGED aux

\* the slot a new invocation takes: the first that awaits nothing
FreeView(v) ==
  /\ views[v].pc \in {"none", "ended"}
  /\ \A q \in Views : q < v => views[q].pc \notin {"none", "ended"}
FreeDelete(d) ==
  /\ deletes[d].pc = "none"
  /\ \A q \in Deletes : q < d => deletes[q].pc # "none"

\* the summary that is already there is not looked at
NeedsSummary_TextOnly(catalog) == catalog.rawText # ""

\* if (!catalog.summary && catalog.rawText)
NeedsSummary(catalog) == catalog.summary = "" /\ catalog.rawText # ""

\* handleSelectCatalog(catalog) for an entry of the list, up to its first await
handleSelectCatalog(v, catalog) ==
  /\ clicks < MaxClicks
  /\ clicks' = clicks + 1
  /\ progress' = FreshProgress("idle")
  /\ chat' = IF Len(catalog.extractedData) > 0
             THEN createChat(catalog.extractedData)
             ELSE NoChat
  /\ selectedCatalog' = <<catalog>>
  /\ IF NeedsSummary(catalog)
     THEN /\ FreeView(v)
          /\ views' = [views EXCEPT ![v] = [pc |-> "summarizing",
                                            catalog |-> <<catalog>>,
                                            summary |-> "",
                                            update |-> "none"]]
     ELSE /\ v = 1
          /\ views' = views
  /\ UNCHANGED <<runs, store, nextDocId, savedCatalogs, timers, deletes, now>>
  /\ UNCHANGED aux

\* `await generateSummary(catalog.rawText)' settles in handleSelectCatalog
ViewSummarySettles(v) ==
  /\ views[v].pc = "summarizing"
  /\ \E o \in ApiOutcomes(SummaryResponses, SummaryTimeoutMs) :
       LET res == generateSummary(o) IN
       views' = [views EXCEPT ![v] =
                   IF res.status = "fulfilled"
                   THEN [@ EXCEPT !.pc = "updating", !.summary = res.value,
                                  !.update = "pending"]
                   ELSE [@ EXCEPT !.pc = "ended"]]
  /\ UNCHANGED <<progress, runs, store, nextDocId, savedCatalogs,
                 selectedCatalog, chat, timers, deletes, clicks, now>>
  /\ UNCHANGED aux

\* prev.map(c => c.id === updatedCatalog.id ? updatedCatalog : c)
ReplaceById(list, updatedCatalog) ==
  [i \in 1..Len(list) |->
     IF list[i].id = updatedCatalog.id THEN updatedCatalog ELSE list[i]]

\* `await db.updateCatalog(updatedCatalog)' settles in handleSelectCatalog; a
\* rejection is logged by the catch block
ViewUpdateSettles(v) ==
  /\ views[v].pc = "updating"
  /\ LET updatedCatalog == [views[v].catalog[1] EXCEPT
                              !.summary = views[v].summary]
         res == updateCatalog(store, updatedCatalog)
     IN \/ /\ res.ok
           /\ store' = res.docs
           /\ selectedCatalog' = <<updatedCatalog>>
           /\ savedCatalogs' = ReplaceById(savedCatalogs, updatedCatalog)
           /\ views' = [views EXCEPT ![v] = [@ EXCEPT !.pc = "ended",
                                                      !.update = "fulfilled"]]
        \/ /\ ~res.ok
           /\ views' = [views EXCEPT ![v] = [@ EXCEPT !.pc = "ended",
                                                      !.update = "notFound"]]
           /\ UNCHANGED <<store, selectedCatalog, savedCatalogs>>
        \/ /\ StoreFailures # {}
           /\ views' = [views EXCEPT ![v] = [@ EXCEPT !.pc = "ended",
                                                      !.update = "rejected"]]
           /\ UNCHANGED <<store, selectedCatalog, savedCatalogs>>
  /\ UNCHANGED <<progress, runs, nextDocId, chat, timers, deletes, clicks, now>>
  /\ UNCHANGED aux

\* selectedCatalog?.id ?? null
selectedCatalogId == IF selectedCatalog = <<>> THEN 0 ELSE selectedCatalog[1].id

\* handleDeleteCatalog(id) for an entry of the list, up to its first await
handleDeleteCatalog(d, id) ==
  /\ FreeDelete(d)
  /\ clicks < MaxClicks
  /\ clicks' = clicks + 1
  /\ deletes' = [deletes EXCEPT ![d] = [pc |-> "deleting", id |-> id,
                                        selectedCatalogId |-> selectedCatalogId]]
  /\ UNCHANGED <<progress, runs, store, nextDocId, savedCatalogs,
                 selectedCatalog, chat, timers, views, now>>
  /\ UNCHANGED aux

\* `await db.deleteCatalog(id)' settles; nothing catches a rejection
DeleteSettles(d) ==
  /\ deletes[d].pc = "deleting"
  /\ \/ /\ StoreFailures # {}
        /\ deletes' = [deletes EXCEPT ![d] = NoDelete]
        /\ store' = store
     \/ /\ store' = deleteCatalog(store, deletes[d].id)
        /\ deletes' = [deletes EXCEPT ![d].pc = "reloading"]
  /\ UNCHANGED <<progress, runs, nextDocId, savedCatalogs, selectedCatalog,
                 chat, timers, views, clicks, now>>
  /\ UNCHANGED aux

\* `await loadCatalogs()' settles in handleDeleteCatalog
DeleteReloadSettles(d) ==
  /\ deletes[d].pc = "reloading"
  /\ deletes' = [deletes EXCEPT ![d] = NoDelete]
  /\ \/ /\ StoreFailures # {}
        /\ UNCHANGED <<savedCatalogs, selectedCatalog, chat, progress>>
     \/ /\ savedCatalogs' = getAllCatalogs(store)
        /\ IF deletes[d].selectedCatalogId = deletes[d].id
           THEN /\ selectedCatalog' = <<>>
                /\ chat' = NoChat
                /\ progress' = FreshProgress("idle")
           ELSE UNCHANGED <<selectedCatalog, chat, progress>>
  /\ UNCHANGED <<runs, store, nextDocId, timers, views, clicks, now>>
  /\ UNCHANGED aux

\* a click on entry i of the catalog list
onSelect(v, i) ==
  /\ i <= Len(savedCatalogs)
  /\ handleSelectCatalog(v, savedCatalogs[i])

\* a click on the delete button of entry i, confirmed in the dialog
handleDeleteClick(d, i) ==
  /\ i <= Len(savedCatalogs)
  /\ handleDeleteCatalog(d, savedCatalogs[i].id)

\* the cells the table offers: item identifiers, text columns, typed values
CellIds == {ToString(c) \o "-" \o ToString(i) : c \in 1..MaxStarts, i \in 0..1}
CellKeys == {"modelName", "grade"}
CellValues == {"", "X"}

\* every item gets the value
updatedData_EveryItem(extractedData, id, key, value) ==
  [i \in 1..Len(extractedData) |-> [extractedData[i] EXCEPT ![key] = value]]

\* selectedCatalog.extractedData.map(item =>
\*   item.id === id ? { ...item, [key]: value } : item)
updatedData(extractedData, id, key, value) ==
  [i \in 1..Len(extractedData) |->
     IF extractedData[i].id = id
     THEN [extractedData[i] EXCEPT ![key] = value]
     ELSE extractedData[i]]

\* handleCellChange(id, key, value)
handleCellChange(id, key, value) ==
  /\ edits < MaxEdits
  /\ edits' = edits + 1
  /\ selectedCatalog' =
       IF selectedCatalog = <<>> THEN <<>>
       ELSE <<[selectedCatalog[1] EXCEPT
                 !.extractedData = updatedData(@, id, key, value)]>>
  /\ UNCHANGED <<progress, runs, store, nextDocId, savedCatalogs, chat, timers,
                 views, deletes, clicks, now, call, panel, sends>>

(* ------------------- a gateway call: its steps ------------------------ *)
\* a gateway function is called: it makes its request and wraps it
GatewayCall(fn) ==
  /\ call.n < MaxCalls
  /\ call.fn = "none" \/ call.op # <<>>
  /\ call' = [fn |-> fn, n |-> call.n + 1, op |-> <<>>, timer |-> "armed",
              wt |-> <<>>, result |-> <<>>]
  /\ UNCHANGED <<app, edits, panel, sends>>

\* the request settles; the then / catch callback clears the timer and
\* resolves or rejects
RequestSettles ==
  /\ call.fn # "none" /\ call.op = <<>>
  /\ \E o \in {Response(t) : t \in Responses(call.fn)}
               \cup {Failure(e) : e \in RequestFailures} :
       LET wt == Settle(call.wt, o) IN
       call' = [call EXCEPT
                  !.op = <<o>>,
                  !.timer = IF @ = "armed" THEN "cleared" ELSE @,
                  !.wt = wt,
                  !.result = Follow(call.fn, wt, call.n)]
  /\ UNCHANGED <<app, edits, panel, sends>>

\* the timer of withTimeout fires
TimeoutElapses ==
  /\ call.timer = "armed"
  /\ LET wt == TimerCallback(call.wt, TimeoutMs(call.fn)) IN
     call' = [call EXCEPT !.timer = "fired",
                          !.wt = wt,
                          !.result = Follow(call.fn, wt, call.n)]
  /\ UNCHANGED <<app, edits, panel, sends>>

(* ------------------------ chat panel: its steps ----------------------- *)
\* CarDataDisplay renders <ChatPanel chat={chat} /> for a chat session
MountChatPanel(chatProp) ==
  /\ ~panel.mounted
  /\ panel.inst < MaxMounts
  /\ chatProp.live
  /\ panel' = MountedPanel(panel.inst + 1, chatProp)
  /\ UNCHANGED <<app, edits, call, sends>>

\* another tab is shown, or the catalog or the chat session goes away: the
\* component's state is discarded
UnmountChatPanel ==
  /\ panel.mounted
  /\ panel' = Unmounted(panel.inst)
  /\ UNCHANGED <<app, edits, call, sends>>

\* onChange of the input, which is disabled while a send is in flight
onChange(text) ==
  /\ panel.mounted /\ ~panel.isSending
  /\ panel' = [panel EXCEPT !.userInput = text]
  /\ UNCHANGED <<app, edits, call, sends>>

\* handleSendMessage(e) up to `await chat.sendMessage(..)'
handleSendMessage ==
  /\ panel.mounted
  /\ Len(sends) < MaxSends
  /\ IF Blocked(panel)
     THEN UNCHANGED <<panel, sends>>
     ELSE /\ panel' = [panel EXCEPT
                         !.messages = Append(@, Message("user", panel.userInput)),
                         !.userInput = "",
                         !.isSending = TRUE,
                         !.error = NoError]
          /\ sends' = Append(sends, [inst |-> panel.inst,
                                     message |-> panel.userInput,
                                     status |-> "pending"])
  /\ UNCHANGED <<app, edits, call>>

\* `await chat.sendMessage({ message: currentInput })' settles for send k; the
\* state updates of an instance that is no longer mounted are dropped
SendSettles(k) ==
  /\ k <= Len(sends)
  /\ sends[k].status = "pending"
  /\ \E ok \in BOOLEAN :
       /\ sends' = [sends EXCEPT
                      ![k].status = IF ok THEN "fulfilled" ELSE "rejected"]
       /\ IF ~(panel.mounted /\ panel.inst = sends[k].inst)
          THEN panel' = panel
          ELSE IF ok
          THEN \E text \in Replies :
                 panel' = [panel EXCEPT
                             !.messages = Append(@, Message("model", text)),
                             !.isSending = FALSE]
          ELSE panel' = [panel EXCEPT
                           !.error = MsgSendFailed,
                           !.userInput = sends[k].message,
                           !.messages = DropLast(@),
                           !.isSending = FALSE]
  /\ UNCHANGED <<app, edits, call>>

\* the chat sessions a panel may be given
ChatProps ==
  {createChat(WithIds(JSONparse(OneCarJson), 1))}

NextChat ==
  \/ \E c \in ChatProps : MountChatPanel(c)
  \/ UnmountChatPanel
  \/ \E text \in ChatInputs : onChange(text)
  \/ handleSendMessage
  \/ \E k \in 1..MaxSends : SendSettles(k)

SpecChat == Init /\ [][NextChat]_vars

\* a session of PDF uploads in which every call that is pending settles
NextLive ==
  \/ \E r \in Runs, f \in Files : handleFileChange(r, f)
  \/ \E r \in Runs : ReaderLoads(r)
  \/ \E r \in Runs : ReaderFails(r)
  \/ \E r \in Runs : GetDocumentSettles(r)
  \/ \E r \in Runs : RenderPage(r)
  \/ \E r \in Runs : TextSettles(r)
  \/ \E r \in Runs : JsonSettles(r)
  \/ \E r \in Runs : SummarySettles(r)
  \/ \E r \in Runs : SaveSettles(r)
  \/ \E r \in Runs : ReloadSettles(r)
  \/ TimerFires

\* a pending file read, PDF parse, page render, AI call or store call
\* settles, with success or failure, or a timer that is set fires
Settles ==
  \/ \E r \in Runs : ReaderLoads(r) \/ ReaderFails(r)
  \/ \E r \in Runs : GetDocumentSettles(r)
  \/ \E r \in Runs : RenderPage(r)
  \/ \E r \in Runs : TextSettles(r) \/ JsonSettles(r)
  \/ \E r \in Runs : SummarySettles(r)
  \/ \E r \in Runs : SaveSettles(r) \/ ReloadSettles(r)
  \/ TimerFires

\* as long as something is pending, something settles
CallsSettle == WF_vars(Settles)

SpecLive == Init /\ [][NextLive]_vars /\ CallsSettle

NextGateway ==
  \/ \E fn \in GatewayFns : GatewayCall(fn)
  \/ RequestSettles
  \/ TimeoutElapses

SpecGateway == Init /\ [][NextGateway]_vars

Next ==
  \/ \E r \in Runs, f \in Files : handleFileChange(r, f)
  \/ \E r \in Runs : ReaderLoads(r)
  \/ \E r \in Runs : ReaderFails(r)
  \/ \E r \in Runs : GetDocumentSettles(r)
  \/ \E r \in Runs : RenderPage(r)
  \/ \E r \in Runs : TextSettles(r)
  \/ \E r \in Runs : JsonSettles(r)
  \/ \E r \in Runs : SummarySettles(r)
  \/ \E r \in Runs, u \in Urls : handleUrlSubmit(r, u)
  \/ \E r \in Runs : FetchSettles(r)
  \/ \E r \in Runs : WebExtractSettles(r)
  \/ \E r \in Runs : UrlSummarySettles(r)
  \/ \E r \in Runs : SaveSettles(r)
  \/ \E r \in Runs : ReloadSettles(r)
  \/ TimerFires
  \/ \E v \in Views, i \in 1..MaxStarts : onSelect(v, i)
  \/ \E v \in Views : ViewSummarySettles(v)
  \/ \E v \in Views : ViewUpdateSettles(v)
  \/ \E d \in Deletes, i \in 1..MaxStarts : handleDeleteClick(d, i)
  \/ \E d \in Deletes : DeleteSettles(d)
  \/ \E d \in Deletes : DeleteReloadSettles(d)

Spec == Init /\ [][Next]_vars

\* a session of one PDF upload in which cells are edited
NextEdit ==
  \/ \E r \in Runs, f \in Files : now = 0 /\ handleFileChange(r, f)
  \/ \E r \in Runs : ReaderLoads(r)
  \/ \E r \in Runs : GetDocumentSettles(r)
  \/ \E r \in Runs : RenderPage(r)
  \/ \E r \in Runs : TextSettles(r)
  \/ \E r \in Runs : JsonSettles(r)
  \/ \E r \in Runs : SummarySettles(r)
  \/ \E r \in Runs : SaveSettles(r)
  \/ \E r \in Runs : ReloadSettles(r)
  \/ TimerFires
  \/ \E v \in Views, i \in 1..MaxStarts : onSelect(v, i)
  \/ \E v \in Views : ViewSummarySettles(v)
  \/ \E v \in Views : ViewUpdateSettles(v)
  \/ \E d \in Deletes, i \in 1..MaxStarts : handleDeleteClick(d, i)
  \/ \E d \in Deletes : DeleteSettles(d)
  \/ \E d \in Deletes : DeleteReloadSettles(d)
  \/ \E id \in CellIds, key \in CellKeys, value \in CellValues :
       handleCellChange(id, key, value)

SpecEdit == Init /\ [][NextEdit]_vars

(* ------------------------------ claims -------------------------------- *)
\* run r's join completes in this step: both branch results are in
Joins(r) == runs[r].pc = "extracting" /\ runs'[r].pc # "extracting"

BothRejected(run) ==
  run.text.status = "rejected" /\ run.json.status = "rejected"

\* exactly one branch succeeded, and with content
TextOnly(run) ==
  /\ run.text.status = "fulfilled" /\ run.text.value # ""
  /\ run.json.status = "rejected"
JsonOnly(run) ==
  /\ run.json.status = "fulfilled" /\ Len(run.json.value.parsedData) > 0
  /\ run.text.status = "rejected"

\* C1: when both extraction branches of a PDF run fail, the run ends there:
\* saveCatalog is not called and the store's collection is left as it was.
C1_BothFailNothingSaved ==
  [][\A r \in Runs :
       (Joins(r) /\ BothRejected(runs'[r]))
         => /\ runs'[r].pc = "ended"
            /\ runs'[r].save = "none"
            /\ runs'[r].newCatalog = <<>>
            /\ store' = store
            /\ nextDocId' = nextDocId]_vars

C1_Witness ==
  \E r \in Runs :
    /\ runs[r].kind = "pdf" /\ runs[r].pc = "ended"
    /\ BothRejected(runs[r])
    /\ runs[r].save = "none"

\* C2: a PDF run in which exactly one branch succeeded with content and whose
\* store calls did not fail ends with a record holding the successful
\* branch's data and empty defaults for the other branch, and reaches done.
C2_PartialResultSaved ==
  \A r \in Runs :
    LET run == runs[r]
        l == ExtractLocals(run.text, run.json)
    IN (/\ run.kind = "pdf" /\ run.pc = "ended"
        /\ TextOnly(run) \/ JsonOnly(run)
        /\ run.save # "rejected" /\ run.list # "rejected")
         => /\ run.list = "fulfilled"
            /\ Len(run.newCatalog) = 1
            /\ run.newCatalog[1].rawText = l.extractedRawText
            /\ run.newCatalog[1].extractedData = l.extractedJsonData.parsedData
            /\ run.newCatalog[1].rawJson = l.extractedJsonData.rawJson

\* C3: when both branches fail the run ends in stage error, and the
\* tracker's message is the text branch's failure message, a line separator,
\* and the structured branch's failure message, whichever settled last.
C3_BothFailMessage ==
  [][\A r \in Runs :
       (Joins(r) /\ BothRejected(runs'[r]))
         => /\ progress'.step = "error"
            /\ progress'.error =
                 runs'[r].text.reason \o "\n" \o runs'[r].json.reason]_vars

C3_Witness ==
  \E r \in Runs :
    /\ runs[r].pc = "ended" /\ BothRejected(runs[r])
    /\ runs[r].text.reason # "" /\ runs[r].json.reason # ""
    /\ progress.step = "error"
    /\ progress.error = runs[r].text.reason \o "\n" \o runs[r].json.reason

\* C4: a run is past its join only when no branch is pending, and
\* saveCatalog is called only when every branch has settled and no summary
\* call is pending.
C4_SaveAfterSettle ==
  \A r \in Runs :
    LET run == runs[r] IN
    /\ (run.text.status = "pending" \/ run.json.status = "pending")
         => run.pc \in {"extracting", "webExtracting"}
    /\ run.save # "none"
         => /\ run.kind = "pdf" => (Settled(run.text) /\ Settled(run.json))
            /\ run.kind = "url" => Settled(run.json)
            /\ run.sum.status # "pending"

C4_Witness ==
  \E r \in Runs :
    /\ runs[r].kind = "pdf" /\ runs[r].save = "fulfilled"
    /\ Settled(runs[r].text) /\ Settled(runs[r].json) /\ Settled(runs[r].sum)

\* C5: the summary is requested only once the text branch has settled with
\* text; a run whose text branch failed but whose structured branch produced
\* records skips the summary and goes on to the save; and a failed summary
\* call leaves the run on its way to the save.
C5_SummaryNeverFatal ==
  \A r \in Runs :
    LET run == runs[r] IN
    /\ run.sum.status # "none"
         => /\ run.kind = "pdf" => run.text.status = "fulfilled"
            /\ run.extractedRawText # ""
    /\ (run.kind = "pdf" /\ JsonOnly(run) /\ run.pc # "extracting")
         => (run.sum.status = "none" /\ run.save # "none")
    /\ run.sum.status = "rejected"
         => (run.pc \in {"saving", "reloading", "ended"} /\ run.save # "none")

\* C6: no record with empty rawText and empty extractedData is ever in the
\* store, and a run whose extraction produced neither text nor records ends
\* without calling saveCatalog.
C6_NoEmptyRecord ==
  /\ \A c \in store : ~(c.rawText = "" /\ Len(c.extractedData) = 0)
  /\ \A r \in Runs :
       LET run == runs[r] IN
       (/\ run.json.status = "fulfilled"
        /\ run.kind = "pdf" => run.text.status = "fulfilled"
        /\ NothingExtracted(run.extractedRawText,
                            run.extractedJsonData.parsedData)
        /\ run.pc \notin {"extracting", "webExtracting"})
         => (run.pc = "ended" /\ run.save = "none")

\* the wording of the save failure in the earlier handleExtractData
MsgExtractedNotSaved ==
  "Data extraction finished, but saving to the database failed."

\* C7: when saveCatalog rejects in a PDF run, the run ends in stage error with
\* the message that the data was extracted but not saved, and the store gains
\* no record.
C7_SaveFailureMessage ==
  [][\A r \in Runs :
       (/\ runs[r].kind = "pdf"
        /\ runs[r].save = "pending" /\ runs'[r].save = "rejected")
         => /\ progress'.step = "error"
            /\ progress'.error = MsgExtractedNotSaved
            /\ store' = store]_vars

\* C8: a PDF run that ends in stage error has left no record in the store,
\* also when the failure came after saveCatalog succeeded.
C8_FailedRunLeavesNothing ==
  [][\A r \in Runs :
       (/\ runs[r].kind = "pdf"
        /\ ~Over(runs[r]) /\ runs'[r].pc = "ended" /\ progress'.step = "error")
         => \A c \in store' :
              runs'[r].newCatalog = <<>> \/ c.id # runs'[r].newCatalog[1].id]_vars

\* C9: while a PDF run is in flight no stage leaves the completed set, the
\* transitions into error included; the set is empty when a run starts.
C9_CompletedStepsGrow ==
  [][/\ (now' = now /\ \E r \in Runs : runs[r].kind = "pdf" /\ ~Over(runs[r]))
          => progress.completedSteps \subseteq progress'.completedSteps
     /\ now' # now => progress'.completedSteps = {}]_vars

\* C10: whenever a run stops without having reached done, the tracker is in
\* stage error and carries a message.
C10_FailuresReachError ==
  [][\A r \in Runs :
       (~Over(runs[r]) /\ Over(runs'[r]) /\ runs'[r].list # "fulfilled")
         => (progress'.step = "error" /\ progress'.error # NoError)]_vars

\* a run with an extraction, summary or store call pending
Pending(run) ==
  run.pc \in {"extracting", "webExtracting", "summarizing", "saving", "reloading"}

\* every record created so far came from a PDF upload and is still stored
UploadsOnly ==
  /\ \A r \in Runs : runs[r].kind # "url"
  /\ \A c \in store : c.fileName \in Files
  /\ Cardinality(store) = nextDocId - 1

\* C11: in a session whose records all came from PDF uploads, at most one
\* pipeline run has a call pending at any time, and while one has, the file
\* upload and the URL form are disabled, so that no new run can be started,
\* whatever was clicked and whatever completed in between.
C11_OneRunInFlight ==
  UploadsOnly
    => /\ Cardinality({r \in Runs : Pending(runs[r])}) <= 1
       /\ (\E r \in Runs : Pending(runs[r])) => InputDisabled(progress)

\* C12: within one run no external call is made a second time: a settled
\* text, structured, summary or save result stays as it is, a rejected save
\* ends the run, the store gains a record only in the step in which a run's
\* one save call fulfils, and a run that reaches done has that one save
\* fulfilled.
C12_EachCallOnce ==
  [][/\ \A r \in Runs :
          LET a == runs[r]
              b == runs'[r]
          IN /\ a.save = "rejected" => a.pc = "ended"
             /\ now' = now =>
                  /\ Settled(a.text) => b.text = a.text
                  /\ Settled(a.json) => b.json = a.json
                  /\ a.sum.status \in {"fulfilled", "rejected"} => b.sum = a.sum
                  /\ a.save \in {"fulfilled", "rejected"}
                       => (b.save = a.save /\ b.newCatalog = a.newCatalog)
                  /\ (a.list # "fulfilled" /\ b.list = "fulfilled")
                       => (b.save = "fulfilled" /\ Len(b.newCatalog) = 1)
     /\ \A c \in store' :
          (\A o \in store : o.id # c.id)
            => Cardinality({r \in Runs :
                              /\ runs[r].save = "pending"
                              /\ runs'[r].save = "fulfilled"
                              /\ runs'[r].newCatalog[1].id = c.id}) = 1]_vars

C12_Witness ==
  \E r \in Runs :
    /\ runs[r].kind = "pdf" /\ runs[r].pc = "ended"
    /\ runs[r].list = "fulfilled" /\ runs[r].save = "fulfilled"
    /\ runs[r].sum.status = "rejected"
    /\ progress.step = "done"
    /\ Cardinality({c \in store : c.id = runs[r].newCatalog[1].id}) = 1

\* the step is a click on an entry of the list that selects it
Selects == clicks' # clicks /\ deletes' = deletes

\* the documents stored under identifier id
DocsWithId(docs, id) == {d \in docs : d.id = id}

C14_UpdateAfterDeleteBenign ==
  [][/\ \A id \in 1..(nextDocId - 1) :
          DocsWithId(store, id) = {} => DocsWithId(store', id) = {}
     /\ \A v \in Views :
          (/\ views[v].pc = "updating" /\ views'[v].pc # "updating"
           /\ DocsWithId(store, views[v].catalog[1].id) = {})
            => /\ store' = store
               /\ views'[v].pc = "ended"
               /\ views'[v].update \in {"notFound", "rejected"}
               /\ progress' = progress]_vars

C14_Witness ==
  \E v \in Views :
    /\ views[v].pc = "ended" /\ views[v].update = "notFound"
    /\ DocsWithId(store, views[v].catalog[1].id) = {}
    /\ progress.step # "error"

\* C15: whatever was created, updated and deleted, getAllCatalogs returns
\* the stored records, each exactly once, newest creation time first.
C15_ListAllNewestFirst ==
  LET l == getAllCatalogs(store) IN
  /\ Len(l) = Cardinality(store)
  /\ {l[i].id : i \in 1..Len(l)} = {d.id : d \in store}
  /\ \A i \in 1..Len(l) : \E d \in store :
       /\ d.id = l[i].id
       /\ l[i] = [d EXCEPT !.createdAt = l[i].createdAt]
       /\ TimestampFromDate(l[i].createdAt) = d.createdAt
  /\ \A i, j \in 1..Len(l) : i < j => l[i].createdAt >= l[j].createdAt

C15_Witness ==
  LET l == getAllCatalogs(store) IN
  /\ Len(l) = 2
  /\ l[1].createdAt > l[2].createdAt
  /\ \E v \in Views :
       /\ views[v].update = "fulfilled"
       /\ \E i \in 1..2 : /\ l[i].id = views[v].catalog[1].id
                           /\ l[i].summary = views[v].summary

\* run r's saveCatalog call fulfils in this step
Creates(r) == runs[r].save = "pending" /\ runs'[r].save = "fulfilled"

\* what getAllCatalogs returns for identifier id
ReadBack(docs, id) ==
  LET l == getAllCatalogs(docs)
  IN {l[i] : i \in {j \in 1..Len(l) : l[j].id = id}}

\* rec has the supplied data in every field but images
SameButImages(rec, supplied) ==
  /\ rec.fileName = supplied.fileName
  /\ rec.createdAt = supplied.createdAt
  /\ rec.extractedData = supplied.extractedData
  /\ rec.rawJson = supplied.rawJson
  /\ rec.rawText = supplied.rawText
  /\ rec.summary = supplied.summary

DeleteFulfils(d) == deletes[d].pc = "deleting" /\ deletes'[d].pc = "reloading"

\* C17: when deleteCatalog(id) fulfils for a stored record, getAllCatalogs
\* returns no record with that identifier any more, and every other document
\* is in the store as before.
C17_DeleteRemovesOnlyThat ==
  [][\A d \in Deletes :
       (DeleteFulfils(d) /\ DocsWithId(store, deletes[d].id) # {})
         => /\ ReadBack(store', deletes[d].id) = {}
            /\ store' \subseteq store
            /\ \A x \in store : x.id # deletes[d].id => x \in store']_vars

C17_Witness ==
  \E d \in Deletes :
    /\ deletes[d].pc = "reloading"
    /\ \A e \in Deletes \ {d} : deletes[e].pc = "none"
    /\ clicks = 1
    /\ nextDocId = 3
    /\ DocsWithId(store, deletes[d].id) = {}
    /\ Cardinality(store) = 1

\* C18: in a session with one PDF upload, a deleteCatalog(id) call for an
\* identifier that is not in the store (any more) does not fulfil, and leaves
\* the store as it is.
C18_DeleteMissingNotFound ==
  [][\A d \in Deletes :
       (/\ now = 1 /\ \A r \in Runs : runs[r].kind # "url"
        /\ deletes[d].pc = "deleting" /\ deletes'[d].pc # "deleting"
        /\ DocsWithId(store, deletes[d].id) = {})
         => (~DeleteFulfils(d) /\ store' = store)]_vars

C20_InvalidUrlNoCalls ==
  [][\A r \in Runs :
       /\ (runs[r].kind = "url" /\ runs[r].url = "not a url")
            => /\ runs[r].pc = "ended"
               /\ runs[r].json.status = "none" /\ runs[r].sum.status = "none"
               /\ runs[r].save = "none" /\ runs[r].list = "none"
       /\ (now' # now /\ runs'[r] # runs[r] /\ runs'[r].url = "not a url")
            => /\ runs'[r].pc = "ended"
               /\ progress' = ErrorReset(MsgInvalidUrl)
               /\ store' = store /\ savedCatalogs' = savedCatalogs]_vars

C20_Witness ==
  \E r \in Runs :
    /\ runs[r].kind = "url" /\ runs[r].url = "not a url"
    /\ runs[r].pc = "ended"
    /\ progress.step = "error" /\ progress.error = MsgInvalidUrl
    /\ store = {}

\* C21: every item of every stored record's extractedData has a manufacturer,
\* a model name and a grade that are not null, whatever item list the model
\* answered the structured extraction with (the price is a number in every
\* answer considered here).
C21_RequiredFields ==
  \A c \in store :
    \A i \in 1..Len(c.extractedData) :
      /\ c.extractedData[i].manufacturer # Null
      /\ c.extractedData[i].modelName # Null
      /\ c.extractedData[i].grade # Null

\* no item of the list carries a value typed into a cell
Untyped(extractedData) ==
  \A i \in 1..Len(extractedData) :
    /\ extractedData[i].modelName \notin CellValues
    /\ extractedData[i].grade \notin CellValues

\* C22: a cell edit leaves the store, the loaded list and every other part of
\* the state as they were; with no catalog selected nothing changes at all;
\* with one selected, the selected copy keeps every field but extractedData,
\* and in extractedData only one field of the items with one identifier may
\* differ from before.  No value typed into a cell is ever found in a stored
\* record or in the loaded list, whatever is selected, summarised or deleted
\* after the edit.
C22_EditsInMemoryOnly ==
  [][/\ edits' # edits
          => /\ UNCHANGED <<store, savedCatalogs, progress, chat, runs, views,
                            deletes, nextDocId>>
             /\ selectedCatalog = <<>> => selectedCatalog' = <<>>
             /\ selectedCatalog # <<>>
                  => LET a == selectedCatalog[1]
                         b == selectedCatalog'[1]
                     IN /\ Len(selectedCatalog') = 1
                        /\ b = [a EXCEPT !.extractedData = b.extractedData]
                        /\ Len(b.extractedData) = Len(a.extractedData)
                        /\ \E id \in CellIds, key \in CellKeys :
                             \A i \in 1..Len(a.extractedData) :
                               /\ a.extractedData[i].id # id
                                    => b.extractedData[i] = a.extractedData[i]
                               /\ b.extractedData[i] =
                                    [a.extractedData[i] EXCEPT
                                       ![key] = b.extractedData[i][key]]
     /\ \A c \in store' : Untyped(c.extractedData)
     /\ \A i \in 1..Len(savedCatalogs') :
          Untyped(savedCatalogs'[i].extractedData)]_vars

\* the record's lazy summary was stored, then the first of its two items was
\* edited
C22_Witness ==
  /\ edits > 0
  /\ selectedCatalog # <<>>
  /\ Len(selectedCatalog[1].extractedData) = 2
  /\ selectedCatalog[1].extractedData[1].grade = "X"
  /\ selectedCatalog[1].extractedData[2].grade = Null
  /\ \E c \in store :
       /\ c.id = selectedCatalog[1].id
       /\ c.extractedData[1].grade = "G"
       /\ c.summary # ""
  /\ \E v \in Views : views[v].update = "fulfilled"

\* run r's structured extraction settles for good in this step: the join of
\* a PDF run completes, or the web extraction of a URL run settles
ExtractionOver(r) ==
  \/ Joins(r)
  \/ runs[r].pc = "webExtracting" /\ runs'[r].pc # "webExtracting"

\* C23: in the step in which a run's structured extraction is over, the chat
\* session becomes one seeded with the run's extracted records if that
\* extraction succeeded with a non-empty list (whatever the text branch did),
\* and stays as it was if it failed or returned an empty list; no other step
\* of a run touches the chat session.
C23_ChatIffRecords ==
  [][\A r \in Runs :
       /\ ExtractionOver(r)
            => IF /\ runs'[r].json.status = "fulfilled"
                  /\ Len(runs'[r].json.value.parsedData) > 0
               THEN chat' = [live |-> TRUE,
                             seed |-> runs'[r].json.value.parsedData]
               ELSE chat' = chat
       /\ (/\ runs'[r] # runs[r] /\ now' = now
           /\ \A q \in Runs : ~ExtractionOver(q))
            => chat' = chat]_vars

\* the text branch failed and the run ended in error, yet the session seeded
\* with its two records is there
C23_Witness ==
  \E r \in Runs :
    /\ runs[r].kind = "pdf" /\ runs[r].pc = "ended"
    /\ runs[r].text.status = "rejected"
    /\ runs[r].json.status = "fulfilled"
    /\ Len(runs[r].json.value.parsedData) = 2
    /\ progress.step = "error"
    /\ chat.live /\ chat.seed = runs[r].json.value.parsedData

Kinds == {"InvalidCredential", "RateLimited", "BillingDisabled", "Timeout",
          "Generic"}

StartsWith(s, prefix) ==
  Len(s) >= Len(prefix) /\ SubSeq(s, 1, Len(prefix)) = prefix

\* the kinds whose user-facing message msg is; Generic covers the message
\* that quotes the original error and the one for a thrown non-Error
KindsOf(msg, context) ==
  {k \in Kinds :
     CASE k = "InvalidCredential" -> msg = MsgInvalidKey
       [] k = "RateLimited" -> msg = MsgRateLimited(context)
       [] k = "BillingDisabled" -> msg = MsgBilling
       [] k = "Timeout" -> msg = MsgTimeout(context)
       [] OTHER -> \/ StartsWith(msg, MsgGeneric(context, ""))
                   \/ msg = MsgUnknown(context)}

\* C24: the message a gateway function rejects with is the message of
\* exactly one kind, and it is the Timeout message of the function whenever
\* the timer of withTimeout fired before the request settled, whatever the
\* request does later.
C24_OneKindPerFailure ==
  (call.result # <<>> /\ call.result[1].status = "rejected")
    => LET ks == KindsOf(call.result[1].reason, Context(call.fn))
       IN /\ Cardinality(ks) = 1
          /\ call.timer = "fired" => ks = {"Timeout"}

\* the summary call timed out, and its request failed afterwards
C24_Witness ==
  /\ call.fn = "summary" /\ call.timer = "fired"
  /\ call.op # <<>> /\ ~call.op[1].ok
  /\ call.result # <<>> /\ call.result[1].status = "rejected"
  /\ call.result[1].reason = MsgTimeout(CtxSummary)

\* C26: the promise withTimeout returns settles once: as the request did
\* when the request settles while the timer is armed (the timer is cleared
\* then), with the timeout error when the timer fires, and once settled it
\* keeps its outcome, a later settlement of the request included; it is
\* settled as soon as the request has settled or the timer has fired.
C26_SettlesOnce ==
  [][/\ (call.wt # <<>> /\ call'.n = call.n)
          => (call'.wt = call.wt /\ call'.result = call.result)
     /\ (call.op = <<>> /\ call'.op # <<>> /\ call.timer = "armed")
          => (call'.wt = call'.op /\ call'.timer = "cleared")
     /\ (call.timer = "armed" /\ call'.timer = "fired")
          => call'.wt =
               <<Failure(Err("Request timed out after "
                               \o ToString(TimeoutMs(call.fn)) \o " ms"))>>
     /\ (call'.op # <<>> \/ call'.timer = "fired") => call'.wt # <<>>]_vars

\* the request answered after the timeout: the outcome is still the timeout
C26_Witness ==
  /\ call.timer = "fired"
  /\ call.op # <<>> /\ call.op[1].ok
  /\ call.wt # <<>> /\ ~call.wt[1].ok
  /\ call.wt[1].error.message = "Request timed out after 600000 ms"

\* the stage changes a run may make: the forward steps of a PDF run and of a
\* URL run, and the step into error from a stage in progress
ForwardSteps ==
  {<<"reading", "converting">>, <<"converting", "extractingText">>,
   <<"reading", "extractingJson">>,
   <<"extractingText", "saving">>, <<"extractingJson", "saving">>,
   <<"saving", "done">>}
    \cup {<<s, "error">> :
            s \in {"reading", "converting", "extractingText",
                   "extractingJson", "saving"}}

\* some run has been started and has not come to its end
RunInProgress == \E r \in Runs : ~Over(runs[r])

\* C25: in a session of PDF uploads without clicks on the list, while a run
\* is in progress and no new run is started, the tracker's stage changes
\* only by a forward step of the pipeline or into error: never backwards,
\* never skipping converting, never into saving before the extraction stage.
C25_StagesInOrder ==
  [][(/\ UploadsOnly /\ clicks' = 0
      /\ now' = now
      /\ RunInProgress
      /\ progress'.step # progress.step)
       => <<progress.step, progress'.step>> \in ForwardSteps]_vars

\* C27: in a session of PDF uploads, the revert to idle that a finished run
\* scheduled leaves the tracker as it is when it comes due while a later run
\* is in progress.
C27_RevertSparesLaterRun ==
  [][(UploadsOnly /\ timers' < timers /\ RunInProgress)
       => progress' = progress]_vars

\* runs were started, and each of them has come to its end or can take no
\* further step
AllRunsOver ==
  /\ \E r \in Runs : runs[r].kind # "none"
  /\ \A r \in Runs : Over(runs[r])

\* C28: in a session of PDF uploads, once every call has settled (no run has
\* a step left and no settlement is possible any more), the tracker shows
\* done or error, or idle after the revert from done: no run was left behind
\* in reading, converting, extraction or saving.
C28_RunsTerminate ==
  (AllRunsOver /\ ~ENABLED Settles)
    => \/ progress.step \in {"done", "error"}
       \/ progress.step = "idle" /\ \E r \in Runs : runs[r].list = "fulfilled"

\* the sends of the mounted panel that are in flight
OwnPending(p, s) ==
  {k \in 1..Len(s) : p.mounted /\ s[k].inst = p.inst /\ s[k].status = "pending"}

====
